---- MODULE Spec2Model ----
(***************************************************************************)
(* plaid-sync: the reconciliation engine of src/plaid-sync.py              *)
(* (PlaidSynchronizer.sync, PlaidSynchronizer.sync_with_cursor, main) and  *)
(* the two page loops of src/plaidapi.py (PlaidAPI.get_transactions,       *)
(* PlaidAPI.sync_transactions), as one state machine.                      *)
(*                                                                         *)
(* One step of the machine is one provider call, one store call, or the    *)
(* code that runs between two such calls.  The provider (the Plaid client) *)
(* is the environment: its data is the variable remote, and any provider   *)
(* call may raise an ApiException.  The store (module transactionsdb, which *)
(* is not among the source files) is the variable db, with the operations  *)
(* of the store interface.                                                 *)
(***************************************************************************)
EXTENDS Integers, Sequences, FiniteSets, TLC

(***************************************************************************)
(* Bounds of the model.                                                    *)
(***************************************************************************)
\* invocations of main() in one behaviour
MaxBatches == 2
\* pages the provider's change stream of an item ever holds
MaxStream == 3
\* transactions the provider lists for the window of an item
MaxListing == 4

\* src/plaidapi.py:231 sets count = 500, the page size of /transactions/get.
\* The loop depends on it only through comparisons with lengths, so the model
\* runs it with a page size small enough for listings of several pages.
count == 2

None == "None"

(***************************************************************************)
(* Values.                                                                 *)
(***************************************************************************)
\* the item (bank login) behind the access token of a configured account
ItemOf(account_name) ==
    CASE account_name = "chase" -> "item1"
      [] account_name = "amex" -> "item2"
      [] OTHER -> "item3"

\* the bank account a transaction id belongs to; item1 has two accounts
AccountIdOf(tid) ==
    CASE tid \in {"T1", "T2"} -> "chk1"
      [] tid = "T3" -> "sav1"
      [] tid \in {"U1", "U2"} -> "chk2"
      [] OTHER -> "chk3"

\* plaidapi.Transaction: the fields the synchronizer reads
Transaction(tid, pending) ==
    [transaction_id |-> tid, account_id |-> AccountIdOf(tid), date |-> 1,
     pending |-> pending]

NoTransaction ==
    [transaction_id |-> None, account_id |-> None, date |-> 0, pending |-> FALSE]

\* plaidapi.AccountInfo
AccountInfo(item) == [item_id |-> item, institution_id |-> "ins"]

NoItemInfo == [item_id |-> None, institution_id |-> None]

\* plaidapi.AccountBalance rows the provider returns for an item
ProviderBalances(item) ==
    IF item = "item1"
    THEN << [account_id |-> "chk1", balance_current |-> 10],
            [account_id |-> "sav1", balance_current |-> 20] >>
    ELSE IF item = "item2"
    THEN << [account_id |-> "chk2", balance_current |-> 5] >>
    ELSE << [account_id |-> "chk3", balance_current |-> 7] >>

\* SyncCounts namedtuple
SyncCounts(n, np, a, ap, tf, acc) ==
    [new |-> n, new_pending |-> np, archived |-> a, archived_pending |-> ap,
     total_fetched |-> tf, accounts |-> acc]

\* one page of /transactions/sync
Page(added, modified, removed) ==
    [added |-> added, modified |-> modified, removed |-> removed]

\* opaque cursor tokens; the provider issues Cursors[p + 1] for stream position p
Cursors == << "", "c1", "c2", "c3", "c4", "c5" >>

CursorAt(pos) == Cursors[pos + 1]

\* provider side: the stream position a request cursor stands for (no cursor
\* and the empty cursor both mean the beginning of the stream)
PosOf(cursor) ==
    IF cursor = None THEN 0
    ELSE CHOOSE p \in 0..(Len(Cursors) - 1) : Cursors[p + 1] = cursor

SeqsUpTo(S, n) == UNION { [1..k -> S] : k \in 0..n }

Range(s) == { s[i] : i \in 1..Len(s) }

Min(a, b) == IF a < b THEN a ELSE b

(***************************************************************************)
(* Provider error classification (plaidapi.raise_plaid, wrap_plaid_error). *)
(***************************************************************************)
Reasons == { "NO_ACCOUNTS", "ITEM_LOGIN_REQUIRED", "INTERNAL_SERVER_ERROR" }

NoError == [cls |-> None, message |-> None]

\* raise_plaid without the ITEM_LOGIN_REQUIRED branch
raise_plaid_two_way(reason) ==
    IF reason = "NO_ACCOUNTS"
    THEN [cls |-> "PlaidNoApplicableAccounts", message |-> reason]
    ELSE [cls |-> "PlaidUnknownError", message |-> reason]

raise_plaid(reason) ==
    IF reason = "NO_ACCOUNTS"
    THEN [cls |-> "PlaidNoApplicableAccounts", message |-> reason]
    ELSE IF reason = "ITEM_LOGIN_REQUIRED"
    THEN [cls |-> "PlaidAccountUpdateNeeded", message |-> reason]
    ELSE [cls |-> "PlaidUnknownError", message |-> reason]

(***************************************************************************)
(* State.                                                                  *)
(***************************************************************************)
VARIABLES
    cfg,        \* the installation: the enabled accounts of the configuration
                \* file, in order, and the modes main() is invoked with
    remote,     \* provider data per item: the window listing, the change stream
    db,         \* the store: transactions, cursors, item infos, balance rows
    args,       \* parse_options() of the running invocation of main()
    mainPc,     \* main(): "exit" (not running), "loop", "crashed" (uncaught exception)
    idx,        \* main(): index of the account the loop is at
    results,    \* main(): results, account name -> PlaidSynchronizer
    sync,       \* the PlaidSynchronizer of the account being processed
    loc,        \* locals of sync() / sync_with_cursor() and of the page loop they call
    pc,         \* position of the running sync() / sync_with_cursor()
    trace,      \* history: the provider and store calls of the running sync, in order
    batches,    \* history: invocations of main() so far
    hist,       \* history: per item, what the last finished cursor-mode runs saw
    parked      \* a second PlaidSynchronizer run, started together with the one
                \* in sync / loc / pc / trace and waiting for its next step; or
                \* the finished first call of sync() on the synchronizer that
                \* is running its second

vars == << cfg, remote, db, args, mainPc, idx, results, sync, loc, pc, trace,
           batches, hist, parked >>

Items == { "item1", "item2", "item3" }

(***************************************************************************)
(* The store interface (transactionsdb.TransactionsDB).  db.transactions   *)
(* holds at most one record per transaction id.                            *)
(***************************************************************************)
EmptyDb ==
    [transactions |-> {},
     cursors      |-> [i \in Items |-> None],
     item_info    |-> [i \in Items |-> NoItemInfo],
     balances     |-> << >>]

get_last_sync_cursor(d, item_id) == d.cursors[item_id]

save_sync_cursor(d, item_id, cursor) == [d EXCEPT !.cursors[item_id] = cursor]

get_transaction_ids(d, start_date, end_date, account_ids) ==
    { t.transaction_id :
        t \in { x \in d.transactions :
                  /\ x.date >= start_date
                  /\ x.date <= end_date
                  /\ x.account_id \in account_ids } }

fetch_transactions_by_id(d, tids) ==
    { t \in d.transactions : t.transaction_id \in tids }

save_transaction(d, t) ==
    [d EXCEPT !.transactions =
        { x \in @ : x.transaction_id # t.transaction_id } \cup { t }]

save_item_info(d, info) == [d EXCEPT !.item_info[info.item_id] = info]

save_balance(d, item_id, balance) ==
    [d EXCEPT !.balances = Append(@, [item_id |-> item_id, balance |-> balance])]

(***************************************************************************)
(* The provider (plaid_api.PlaidApi), answering from remote.               *)
(***************************************************************************)
\* /transactions/get with options count, offset
transactions_get(item, offset) ==
    LET listing == remote[item].listing
    IN  [transactions |-> SubSeq(listing, offset + 1, Min(offset + count, Len(listing))),
         total_transactions |-> Len(listing)]

\* /transactions/sync from a cursor
transactions_sync(item, cursor) ==
    LET stream == remote[item].stream
        p == PosOf(cursor)
    IN  IF p < Len(stream)
        THEN [added |-> stream[p + 1].added,
              modified |-> stream[p + 1].modified,
              removed |-> stream[p + 1].removed,
              next_cursor |-> CursorAt(p + 1),
              has_more |-> p + 1 < Len(stream)]
        ELSE [added |-> << >>, modified |-> << >>, removed |-> << >>,
              next_cursor |-> CursorAt(p),
              has_more |-> FALSE]

(***************************************************************************)
(* PlaidSynchronizer: constructor and helpers.  self.transactions is a     *)
(* dict keyed by transaction id: here a set with one record per id.        *)
(***************************************************************************)
PlaidSynchronizer(account_name) ==
    [account_name |-> account_name,
     transactions |-> {},
     plaid_error  |-> NoError,
     item_info    |-> NoItemInfo,
     counts       |-> SyncCounts(0, 0, 0, 0, 0, 0)]

Keys(m) == { t.transaction_id : t \in m }

RECURSIVE add_transactions(_, _)
add_transactions(m, transactions) ==
    IF transactions = << >> THEN m
    ELSE LET t == Head(transactions)
         IN  add_transactions(
                 { x \in m : x.transaction_id # t.transaction_id } \cup { t },
                 Tail(transactions))

count_pending(m, tids) ==
    Cardinality({ i \in 1..Len(tids) :
                    \E t \in m : t.transaction_id = tids[i] /\ t.pending })

\* a list with the elements of a finite set, each once
RECURSIVE SetToSeq(_)
SetToSeq(S) ==
    IF S = {} THEN << >>
    ELSE LET x == CHOOSE y \in S : TRUE
         IN  << x >> \o SetToSeq(S \ { x })

Ids(transactions) == [i \in 1..Len(transactions) |-> transactions[i].transaction_id]

\* an entry of trace: the call, its key argument (a cursor, an item id, a
\* transaction id), the transaction passed, the reason of the ApiException raised
Call(op, key, txn) == [op |-> op, key |-> key, txn |-> txn, raised |-> None]

NoBalances == [none |-> TRUE, rows |-> << >>]

\* the locals before the first statement of sync() / sync_with_cursor()
InitLocals ==
    [balances |-> NoBalances,
     \* get_transactions
     ret |-> << >>, total_transactions |-> 0, offset |-> 0, batch_len |-> 0,
     requests |-> 0,
     \* sync_with_cursor / sync_transactions
     last_cursor |-> None, all_added |-> << >>, all_modified |-> << >>,
     all_removed |-> << >>, current_cursor |-> None, has_next |-> TRUE,
     result_cursor |-> None,
     \* sync
     account_ids |-> {}, tids_existing |-> {}, tids_fetched |-> {},
     tids_new |-> {}, tids_to_archive |-> {},
     \* the write loops: what is still to be saved
     todo_bal |-> << >>, todo_txn |-> << >>, todo_new |-> {}]

(***************************************************************************)
(* main(): one invocation processes the enabled accounts in order, each    *)
(* with a PlaidSynchronizer of its own (process_account).                  *)
(***************************************************************************)
CurrentItem == ItemOf(sync.account_name)

\* no second run
NoContext == [sync |-> PlaidSynchronizer(None), loc |-> InitLocals, pc |-> "none",
              trace |-> << >>]

\* hist.prev[item]: the last finished run of the item: its mode, how it ended,
\* the store when it began, the page requests it made, and the stream and the
\* stored cursor when it ended
NoRun == [mode |-> None, outcome |-> None, db0 |-> EmptyDb, pages |-> 0,
          stream |-> << >>, cursor_after |-> None]

NoArgs == [cursor_sync |-> FALSE, balances |-> FALSE, verbose |-> FALSE,
           start_date |-> 1, end_date |-> 1]

\* main() up to the loop over the accounts: the options are parsed, results = {}
Main(cursor_sync, balances, verbose) ==
    /\ mainPc = "exit"
    /\ batches < MaxBatches
    /\ Len(cfg.enabled) > 0
    /\ cursor_sync \in cfg.cursor_sync
    /\ args' = [cursor_sync |-> cursor_sync, balances |-> balances,
                verbose |-> verbose, start_date |-> 1, end_date |-> 1]
    /\ mainPc' = "loop"
    /\ idx' = 1
    /\ results' = << >>
    /\ batches' = batches + 1
    /\ UNCHANGED << cfg, parked, remote, db, sync, loc, pc, trace, hist >>

\* the process ends and its memory with it; the store and the provider stay
ProcessExit ==
    /\ mainPc' = "exit"
    /\ args' = NoArgs
    /\ idx' = 1
    /\ results' = << >>
    /\ sync' = PlaidSynchronizer(None)
    /\ loc' = InitLocals
    /\ pc' = "none"
    /\ trace' = << >>
    /\ hist' = [hist EXCEPT !.db0 = EmptyDb]
    /\ UNCHANGED << cfg, parked, remote, db, batches >>

\* process_account: sync = PlaidSynchronizer(db, plaid, account_name, token)
ProcessAccount ==
    /\ mainPc = "loop"
    /\ pc = "none"
    /\ idx <= Len(cfg.enabled)
    /\ sync' = PlaidSynchronizer(cfg.enabled[idx])
    /\ loc' = InitLocals
    /\ trace' = << >>
    /\ pc' = "get_item_info"
    /\ hist' = [hist EXCEPT !.db0 = db]
    /\ UNCHANGED << cfg, parked, remote, db, args, mainPc, idx, results, batches >>

\* results[account_name] = sync, and the loop moves on
RecordResult ==
    /\ mainPc = "loop"
    /\ pc = "returned"
    /\ results' = (sync.account_name :> sync) @@ results
    /\ idx' = idx + 1
    /\ pc' = "none"
    /\ hist' = [hist EXCEPT !.prev[CurrentItem] =
                  [mode |-> IF args.cursor_sync THEN "cursor" ELSE "window",
                   outcome |-> IF sync.plaid_error = NoError THEN "ok" ELSE "failed",
                   db0 |-> IF args.cursor_sync THEN hist.db0 ELSE EmptyDb,
                   pages |-> Cardinality({ i \in 1..Len(trace) :
                                             trace[i].op = "transactions_sync" }),
                   stream |-> remote[CurrentItem].stream,
                   cursor_after |-> db.cursors[CurrentItem]]]
    /\ UNCHANGED << cfg, parked, remote, db, args, mainPc, sync, loc, trace, batches >>

\* the loop is over: the summary is printed and main() returns
Summary ==
    /\ mainPc = "loop"
    /\ pc = "none"
    /\ idx > Len(cfg.enabled)
    /\ ProcessExit

\* an exception that nothing catches ends main() with a traceback
Traceback ==
    /\ mainPc = "crashed"
    /\ ProcessExit

(***************************************************************************)
(* Steps common to sync() and sync_with_cursor().                          *)
(***************************************************************************)
\* Raise with the except clause also committing the cursor the page loop had
\* reached when the request failed
RaiseCommitsCursor(op, key, reason) ==
    /\ sync' = [sync EXCEPT !.plaid_error = raise_plaid(reason)]
    /\ pc' = "returned"
    /\ trace' = Append(trace, [Call(op, key, NoTransaction) EXCEPT !.raised = reason])
    /\ db' = IF op = "transactions_sync" /\ loc.current_cursor # None
             THEN save_sync_cursor(db, sync.item_info.item_id, loc.current_cursor)
             ELSE db

\* Raise with the except clause also saving the item info the run had fetched
RaiseSavesItemInfo(op, key, reason) ==
    /\ sync' = [sync EXCEPT !.plaid_error = raise_plaid(reason)]
    /\ pc' = "returned"
    /\ trace' = Append(trace, [Call(op, key, NoTransaction) EXCEPT !.raised = reason])
    /\ db' = IF sync.item_info # NoItemInfo THEN save_item_info(db, sync.item_info)
             ELSE db

\* a provider call raises plaid.ApiException: wrap_plaid_error re-raises it as a
\* PlaidError, and the except clause of sync() / sync_with_cursor() stores it
Raise(op, key, reason) ==
    /\ sync' = [sync EXCEPT !.plaid_error = raise_plaid(reason)]
    /\ pc' = "returned"
    /\ trace' = Append(trace, [Call(op, key, NoTransaction) EXCEPT !.raised = reason])
    /\ db' = db

\* AfterBalances choosing the mode by what the store holds: cursor mode as soon
\* as a cursor is stored for the item
AfterBalancesByStore ==
    IF args.cursor_sync \/ db.cursors[CurrentItem] # None
    THEN "get_last_sync_cursor" ELSE "get_transactions"

\* where the code goes once the balances are settled
AfterBalances == IF args.cursor_sync THEN "get_last_sync_cursor" ELSE "get_transactions"

\* where the write sequence goes once the item info (and each further row) is
\* saved: balances, then transactions, then (cursor mode) the cursor
WritePc(bal, more_txn) ==
    IF bal # << >> THEN "save_balance"
    ELSE IF more_txn THEN "save_transaction"
    ELSE IF args.cursor_sync THEN "save_sync_cursor"
    ELSE "returned"

MoreTxn(l) == IF args.cursor_sync THEN l.todo_txn # << >> ELSE l.todo_new # {}

\* GetItemInfoOk going on to the balances whether asked for or not
GetItemInfoOkAlwaysBalances ==
    /\ pc = "get_item_info"
    /\ sync' = [sync EXCEPT !.item_info = AccountInfo(CurrentItem)]
    /\ pc' = "get_account_balance"
    /\ trace' = Append(trace, Call("get_item_info", None, NoTransaction))
    /\ UNCHANGED << cfg, parked, remote, db, args, mainPc, idx, results, loc, batches, hist >>

GetItemInfoOk ==
    /\ pc = "get_item_info"
    /\ sync' = [sync EXCEPT !.item_info = AccountInfo(CurrentItem)]
    /\ pc' = IF args.balances THEN "get_account_balance" ELSE AfterBalances
    /\ trace' = Append(trace, Call("get_item_info", None, NoTransaction))
    /\ UNCHANGED << cfg, parked, remote, db, args, mainPc, idx, results, loc, batches, hist >>

GetItemInfoFail ==
    /\ pc = "get_item_info"
    /\ \E reason \in Reasons : Raise("get_item_info", None, reason)
    /\ UNCHANGED << cfg, parked, remote, args, mainPc, idx, results, loc, batches, hist >>

GetAccountBalanceOk ==
    /\ pc = "get_account_balance"
    /\ loc' = [loc EXCEPT !.balances =
                  [none |-> FALSE, rows |-> ProviderBalances(CurrentItem)]]
    /\ pc' = AfterBalances
    /\ trace' = Append(trace, Call("get_account_balance", None, NoTransaction))
    /\ UNCHANGED << cfg, parked, remote, db, args, mainPc, idx, results, sync, batches, hist >>

GetAccountBalanceFail ==
    /\ pc = "get_account_balance"
    /\ \E reason \in Reasons : Raise("get_account_balance", None, reason)
    /\ UNCHANGED << cfg, parked, remote, args, mainPc, idx, results, loc, batches, hist >>

\* self.db.save_item_info(self.item_info)
SaveItemInfo ==
    /\ pc = "save_item_info"
    /\ db' = save_item_info(db, sync.item_info)
    /\ pc' = WritePc(loc.todo_bal, MoreTxn(loc))
    /\ trace' = Append(trace, Call("save_item_info", sync.item_info.item_id, NoTransaction))
    /\ UNCHANGED << cfg, parked, remote, args, mainPc, idx, results, sync, loc, batches, hist >>

\* SaveBalance leaving the loop after the first balance
SaveBalanceFirstOnly ==
    /\ pc = "save_balance"
    /\ db' = save_balance(db, sync.item_info.item_id, Head(loc.todo_bal))
    /\ loc' = [loc EXCEPT !.todo_bal = << >>]
    /\ pc' = WritePc(loc'.todo_bal, MoreTxn(loc))
    /\ trace' = Append(trace, Call("save_balance", sync.item_info.item_id, NoTransaction))
    /\ UNCHANGED << cfg, parked, remote, args, mainPc, idx, results, sync, batches, hist >>

\* one round of: for balance in balances: self.db.save_balance(item_id, balance)
SaveBalance ==
    /\ pc = "save_balance"
    /\ db' = save_balance(db, sync.item_info.item_id, Head(loc.todo_bal))
    /\ loc' = [loc EXCEPT !.todo_bal = Tail(@)]
    /\ pc' = WritePc(loc'.todo_bal, MoreTxn(loc))
    /\ trace' = Append(trace, Call("save_balance", sync.item_info.item_id, NoTransaction))
    /\ UNCHANGED << cfg, parked, remote, args, mainPc, idx, results, sync, batches, hist >>

(***************************************************************************)
(* Cursor mode: sync_with_cursor() and PlaidAPI.sync_transactions().       *)
(***************************************************************************)
\* GetLastSyncCursor handing sync_transactions no cursor, whatever is stored
GetLastSyncCursorFresh ==
    /\ pc = "get_last_sync_cursor"
    /\ LET c == get_last_sync_cursor(db, sync.item_info.item_id)
       IN  /\ loc' = [loc EXCEPT !.last_cursor = c, !.current_cursor = None,
                                 !.has_next = TRUE]
           /\ trace' = Append(trace, Call("get_last_sync_cursor", c, NoTransaction))
    /\ pc' = "sync_transactions"
    /\ UNCHANGED << cfg, parked, remote, db, args, mainPc, idx, results, sync, batches, hist >>

\* last_cursor = self.db.get_last_sync_cursor(item_id); sync_transactions starts
\* with current_cursor = cursor, has_next = True and empty lists
GetLastSyncCursor ==
    /\ pc = "get_last_sync_cursor"
    /\ LET c == get_last_sync_cursor(db, sync.item_info.item_id)
       IN  /\ loc' = [loc EXCEPT !.last_cursor = c, !.current_cursor = c,
                                 !.has_next = TRUE]
           /\ trace' = Append(trace, Call("get_last_sync_cursor", c, NoTransaction))
    /\ pc' = "sync_transactions"
    /\ UNCHANGED << cfg, parked, remote, db, args, mainPc, idx, results, sync, batches, hist >>

\* CursorCounts with new counting the distinct ids of the added entries
CursorCountsDistinctNew(m, added, modified, removed) ==
    SyncCounts(Cardinality(Range(Ids(added))),
               count_pending(m, Ids(added)),
               Len(removed),
               0,
               Len(added) + Len(modified),
               Cardinality({ t.account_id : t \in Range(added \o modified) }))

\* CursorCounts with new_pending taken from the pending flags of the added
\* entries themselves, not from the merged map
CursorCountsPendingFromAdded(m, added, modified, removed) ==
    SyncCounts(Len(added),
               Cardinality({ i \in 1..Len(added) : added[i].pending }),
               Len(removed),
               0,
               Len(added) + Len(modified),
               Cardinality({ t.account_id : t \in Range(added \o modified) }))

\* the SyncCounts of sync_with_cursor
CursorCounts(m, added, modified, removed) ==
    SyncCounts(Len(added),
               count_pending(m, Ids(added)),
               Len(removed),
               0,
               Len(added) + Len(modified),
               Cardinality({ t.account_id : t \in Range(added \o modified) }))

\* ToSave without the loop over modified_transactions
ToSaveAddedOnly(added, modified) == added

\* what sync_with_cursor passes to save_transaction, in order: the loop over
\* added_transactions, then the loop over modified_transactions
ToSave(added, modified) == added \o modified

\* SyncTransactionsPageOk keeping self.counts up to date after every page
SyncTransactionsPageOkCountsPerPage ==
    /\ pc = "sync_transactions"
    /\ loc.has_next
    /\ LET resp == transactions_sync(CurrentItem, loc.current_cursor)
           added == loc.all_added \o resp.added
           modified == loc.all_modified \o resp.modified
           removed == loc.all_removed \o resp.removed
           merged == add_transactions(add_transactions(sync.transactions, added),
                                      modified)
       IN  /\ trace' = Append(trace, Call("transactions_sync", loc.current_cursor,
                                          NoTransaction))
           /\ IF resp.has_more
              THEN /\ loc' = [loc EXCEPT !.all_added = added,
                                         !.all_modified = modified,
                                         !.all_removed = removed,
                                         !.current_cursor = resp.next_cursor,
                                         !.has_next = TRUE]
                   /\ pc' = "sync_transactions"
                   /\ sync' = [sync EXCEPT
                                 !.counts = CursorCounts(merged, added, modified, removed)]
              ELSE /\ loc' = [loc EXCEPT !.all_added = added,
                                         !.all_modified = modified,
                                         !.all_removed = removed,
                                         !.current_cursor = resp.next_cursor,
                                         !.has_next = FALSE,
                                         !.result_cursor = resp.next_cursor,
                                         !.todo_bal = loc.balances.rows,
                                         !.todo_txn = ToSave(added, modified)]
                   /\ sync' = [sync EXCEPT
                                 !.transactions = merged,
                                 !.counts = CursorCounts(merged, added, modified, removed)]
                   /\ pc' = "save_item_info"
    /\ UNCHANGED << cfg, parked, remote, db, args, mainPc, idx, results, batches, hist >>

\* one round of the while loop of sync_transactions; when the page says
\* has_more = false the loop ends, sync_transactions returns, and
\* sync_with_cursor merges and counts up to its first store write
SyncTransactionsPageOk ==
    /\ pc = "sync_transactions"
    /\ loc.has_next
    /\ LET resp == transactions_sync(CurrentItem, loc.current_cursor)
           added == loc.all_added \o resp.added
           modified == loc.all_modified \o resp.modified
           removed == loc.all_removed \o resp.removed
           merged == add_transactions(add_transactions(sync.transactions, added),
                                      modified)
       IN  /\ trace' = Append(trace, Call("transactions_sync", loc.current_cursor,
                                          NoTransaction))
           /\ IF resp.has_more
              THEN /\ loc' = [loc EXCEPT !.all_added = added,
                                         !.all_modified = modified,
                                         !.all_removed = removed,
                                         !.current_cursor = resp.next_cursor,
                                         !.has_next = TRUE]
                   /\ pc' = "sync_transactions"
                   /\ UNCHANGED sync
              ELSE /\ loc' = [loc EXCEPT !.all_added = added,
                                         !.all_modified = modified,
                                         !.all_removed = removed,
                                         !.current_cursor = resp.next_cursor,
                                         !.has_next = FALSE,
                                         !.result_cursor = resp.next_cursor,
                                         !.todo_bal = loc.balances.rows,
                                         !.todo_txn = ToSave(added, modified)]
                   /\ sync' = [sync EXCEPT
                                 !.transactions = merged,
                                 !.counts = CursorCounts(merged, added, modified, removed)]
                   /\ pc' = "save_item_info"
    /\ UNCHANGED << cfg, parked, remote, db, args, mainPc, idx, results, batches, hist >>

SyncTransactionsPageFail ==
    /\ pc = "sync_transactions"
    /\ loc.has_next
    /\ \E reason \in Reasons : Raise("transactions_sync", loc.current_cursor, reason)
    /\ UNCHANGED << cfg, parked, remote, args, mainPc, idx, results, loc, batches, hist >>

\* one round of the two loops over added_transactions and modified_transactions
SaveTransactionCursor ==
    /\ pc = "save_transaction"
    /\ args.cursor_sync
    /\ LET t == Head(loc.todo_txn)
       IN  /\ db' = save_transaction(db, t)
           /\ trace' = Append(trace, Call("save_transaction", t.transaction_id, t))
    /\ loc' = [loc EXCEPT !.todo_txn = Tail(@)]
    /\ pc' = WritePc(<< >>, loc'.todo_txn # << >>)
    /\ hist' = [hist EXCEPT !.saved = @ \cup { Head(loc.todo_txn) }]
    /\ UNCHANGED << cfg, parked, remote, args, mainPc, idx, results, sync, batches >>

\* SaveSyncCursor saving the cursor the run started from
SaveSyncCursorStale ==
    /\ pc = "save_sync_cursor"
    /\ db' = save_sync_cursor(db, sync.item_info.item_id, loc.last_cursor)
    /\ trace' = Append(trace, Call("save_sync_cursor", loc.last_cursor, NoTransaction))
    /\ pc' = "returned"
    /\ UNCHANGED << cfg, parked, remote, args, mainPc, idx, results, sync, loc, batches, hist >>

\* SaveSyncCursor with the commented-out archive call (plaid-sync.py:224-228)
\* in force: the removed ids leave the store
SaveSyncCursorArchives ==
    /\ pc = "save_sync_cursor"
    /\ db' = [save_sync_cursor(db, sync.item_info.item_id, loc.result_cursor)
                EXCEPT !.transactions =
                    { t \in @ : t.transaction_id \notin Range(loc.all_removed) }]
    /\ trace' = Append(trace, Call("save_sync_cursor", loc.result_cursor, NoTransaction))
    /\ pc' = "returned"
    /\ UNCHANGED << cfg, parked, remote, args, mainPc, idx, results, sync, loc, batches, hist >>

\* SaveSyncCursor storing no cursor when the drain brought no change
SaveSyncCursorIdleResets ==
    /\ pc = "save_sync_cursor"
    /\ LET c == IF loc.all_added \o loc.all_modified = << >> /\ loc.all_removed = << >>
                THEN None ELSE loc.result_cursor
       IN  /\ db' = save_sync_cursor(db, sync.item_info.item_id, c)
           /\ trace' = Append(trace, Call("save_sync_cursor", c, NoTransaction))
    /\ pc' = "returned"
    /\ UNCHANGED << cfg, parked, remote, args, mainPc, idx, results, sync, loc, batches, hist >>

\* self.db.save_sync_cursor(item_id, sync_result["cursor"]), the last statement
SaveSyncCursor ==
    /\ pc = "save_sync_cursor"
    /\ db' = save_sync_cursor(db, sync.item_info.item_id, loc.result_cursor)
    /\ trace' = Append(trace, Call("save_sync_cursor", loc.result_cursor, NoTransaction))
    /\ pc' = "returned"
    /\ UNCHANGED << cfg, parked, remote, args, mainPc, idx, results, sync, loc, batches, hist >>

(***************************************************************************)
(* Window mode: sync() and PlaidAPI.get_transactions().                    *)
(***************************************************************************)
\* LoopBreaks without the test against the reported total
LoopBreaksShortOnly(batch_len, ret_len, total_transactions) ==
    batch_len < count

\* LoopBreaks with "and" for "or"
LoopBreaksBoth(batch_len, ret_len, total_transactions) ==
    batch_len < count /\ ret_len >= total_transactions

\* the break condition of the while loop of get_transactions
LoopBreaks(batch_len, ret_len, total_transactions) ==
    batch_len < count \/ ret_len >= total_transactions

\* one round of the while loop of get_transactions; when the loop breaks,
\* get_transactions returns and sync() adds the list to self.transactions and
\* collects the account ids
GetTransactionsPageOk ==
    /\ pc = "get_transactions"
    /\ LET resp == transactions_get(CurrentItem, loc.offset)
           ret == loc.ret \o resp.transactions
           merged == add_transactions(sync.transactions, ret)
       IN  /\ trace' = Append(trace, Call("transactions_get", None, NoTransaction))
           /\ IF LoopBreaks(Len(resp.transactions), Len(ret), resp.total_transactions)
              THEN /\ loc' = [loc EXCEPT !.ret = ret,
                                         !.total_transactions = resp.total_transactions,
                                         !.batch_len = Len(resp.transactions),
                                         !.requests = @ + 1,
                                         !.account_ids = { t.account_id : t \in merged }]
                   /\ sync' = [sync EXCEPT !.transactions = merged]
                   /\ pc' = "get_transaction_ids"
              ELSE /\ loc' = [loc EXCEPT !.ret = ret,
                                         !.total_transactions = resp.total_transactions,
                                         !.batch_len = Len(resp.transactions),
                                         !.requests = @ + 1,
                                         !.offset = @ + count]
                   /\ pc' = "get_transactions"
                   /\ UNCHANGED sync
    /\ UNCHANGED << cfg, parked, remote, db, args, mainPc, idx, results, batches, hist >>

GetTransactionsPageFail ==
    /\ pc = "get_transactions"
    /\ \E reason \in Reasons : Raise("transactions_get", None, reason)
    /\ UNCHANGED << cfg, parked, remote, args, mainPc, idx, results, loc, batches, hist >>

\* TidsNew without the difference
TidsNewAll(fetched, existing) == fetched

\* tids_fetched.difference(tids_existing)
TidsNew(fetched, existing) == fetched \ existing

\* TidsToArchive without the difference
TidsToArchiveAll(fetched, existing) == existing

\* tids_existing.difference(tids_fetched)
TidsToArchive(fetched, existing) == existing \ fetched

\* GetTransactionIds asking the store for the ids of every account, not only
\* of the accounts of the fetched transactions
GetTransactionIdsAllAccounts ==
    /\ pc = "get_transaction_ids"
    /\ LET existing == get_transaction_ids(db, args.start_date, args.end_date,
                                           { t.account_id : t \in db.transactions })
           fetched == Keys(sync.transactions)
       IN  loc' = [loc EXCEPT !.tids_existing = existing,
                              !.tids_fetched = fetched,
                              !.tids_new = TidsNew(fetched, existing),
                              !.tids_to_archive = TidsToArchive(fetched, existing)]
    /\ trace' = Append(trace, Call("get_transaction_ids", None, NoTransaction))
    /\ pc' = "fetch_transactions_by_id"
    /\ UNCHANGED << cfg, parked, remote, db, args, mainPc, idx, results, sync, batches, hist >>

\* tids_existing = set(self.db.get_transaction_ids(...)) and the two differences
GetTransactionIds ==
    /\ pc = "get_transaction_ids"
    /\ LET existing == get_transaction_ids(db, args.start_date, args.end_date,
                                           loc.account_ids)
           fetched == Keys(sync.transactions)
       IN  loc' = [loc EXCEPT !.tids_existing = existing,
                              !.tids_fetched = fetched,
                              !.tids_new = TidsNew(fetched, existing),
                              !.tids_to_archive = TidsToArchive(fetched, existing)]
    /\ trace' = Append(trace, Call("get_transaction_ids", None, NoTransaction))
    /\ pc' = "fetch_transactions_by_id"
    /\ UNCHANGED << cfg, parked, remote, db, args, mainPc, idx, results, sync, batches, hist >>

\* WindowCounts with archived_pending = 0, as sync_with_cursor has it
WindowCountsNoArchivedPending(m, tids_new, tids_to_archive, tids_fetched, account_ids) ==
    SyncCounts(Cardinality(tids_new),
               count_pending(m, SetToSeq(tids_new)),
               Cardinality(tids_to_archive),
               0,
               Cardinality(tids_fetched),
               Cardinality(account_ids))

\* the SyncCounts of sync()
WindowCounts(m, tids_new, tids_to_archive, tids_fetched, account_ids) ==
    SyncCounts(Cardinality(tids_new),
               count_pending(m, SetToSeq(tids_new)),
               Cardinality(tids_to_archive),
               count_pending(m, SetToSeq(tids_to_archive)),
               Cardinality(tids_fetched),
               Cardinality(account_ids))

\* self.add_transactions(self.db.fetch_transactions_by_id(tids_to_archive)), the
\* counts, and the code up to save_item_info.  With verbose set and no balances
\* fetched, the "Saving %d balances" line takes len(None): a TypeError, which is
\* no PlaidError and leaves sync(), process_account and main() uncaught.
FetchTransactionsById ==
    /\ pc = "fetch_transactions_by_id"
    /\ LET merged == add_transactions(
                         sync.transactions,
                         SetToSeq(fetch_transactions_by_id(db, loc.tids_to_archive)))
       IN  sync' = [sync EXCEPT
                      !.transactions = merged,
                      !.counts = WindowCounts(merged, loc.tids_new, loc.tids_to_archive,
                                              loc.tids_fetched, loc.account_ids)]
    /\ trace' = Append(trace, Call("fetch_transactions_by_id", None, NoTransaction))
    /\ IF args.verbose /\ loc.balances.none
       THEN /\ pc' = "raised"
            /\ mainPc' = "crashed"
            /\ UNCHANGED loc
       ELSE /\ pc' = "save_item_info"
            /\ loc' = [loc EXCEPT !.todo_bal = loc.balances.rows,
                                  !.todo_new = loc.tids_new]
            /\ UNCHANGED mainPc
    /\ UNCHANGED << cfg, parked, remote, db, args, idx, results, batches, hist >>

\* one round of: for tid in tids_new: self.db.save_transaction(self.transactions[tid])
SaveTransactionWindow ==
    /\ pc = "save_transaction"
    /\ ~args.cursor_sync
    /\ \E tid \in loc.todo_new :
         LET t == CHOOSE x \in sync.transactions : x.transaction_id = tid
         IN  /\ db' = save_transaction(db, t)
             /\ trace' = Append(trace, Call("save_transaction", tid, t))
             /\ loc' = [loc EXCEPT !.todo_new = @ \ { tid }]
             /\ pc' = WritePc(<< >>, loc'.todo_new # {})
             /\ hist' = [hist EXCEPT !.saved = @ \cup { t }]
    /\ UNCHANGED << cfg, parked, remote, args, mainPc, idx, results, sync, batches >>

(***************************************************************************)
(* The provider's data: what a window listing and a change stream can hold. *)
(***************************************************************************)
\* The data of item2 and item3 never changes: item3 is an item with no
\* transactions, item2 has four entries listed (U1 and U2 twice each, on two full
\* pages) and two pages of changes.  The data of item1 starts empty and changes between
\* invocations.
InitialRemote(item) ==
    IF item = "item2"
    THEN [listing |-> << Transaction("U1", TRUE), Transaction("U2", FALSE),
                         Transaction("U1", FALSE), Transaction("U2", TRUE) >>,
          stream  |-> << Page(<< Transaction("U1", TRUE), Transaction("U2", TRUE) >>,
                              << >>, << >>),
                         Page(<< >>, << Transaction("U1", FALSE) >>, << "U2" >>) >>]
    ELSE [listing |-> << >>, stream |-> << >>]

\* the listing of item1 is any subsequence of the first MaxListing entries: every
\* subset of the ids, on one or several pages, T1 and T2 also twice with the
\* pending flag changed
Master ==
    << Transaction("T1", FALSE), Transaction("T2", TRUE), Transaction("T3", TRUE),
       Transaction("T1", TRUE), Transaction("T2", FALSE), Transaction("T3", FALSE) >>

RECURSIVE SubSeqs(_)
SubSeqs(s) ==
    IF s = << >> THEN { << >> }
    ELSE LET rest == SubSeqs(Tail(s))
         IN  rest \cup { << Head(s) >> \o r : r \in rest }

Listings(item) ==
    IF item = "item1"
    THEN SubSeqs(SubSeq(Master, 1, Min(MaxListing, Len(Master))))
    ELSE { }

\* the pages the change stream of an item is made of
Pages(item) ==
    IF item = "item1"
    THEN { Page(<< Transaction("T1", TRUE), Transaction("T2", TRUE) >>, << >>, << >>),
           Page(<< Transaction("T3", TRUE) >>, << Transaction("T2", FALSE) >>,
                << "T1" >>) }
    ELSE { }

Streams(item) == SeqsUpTo(Pages(item), Min(MaxStream, Len(Cursors) - 1))

EnabledItems == { ItemOf(cfg.enabled[i]) : i \in 1..Len(cfg.enabled) }

\* between two invocations the listing of an item becomes any other listing
ListingChange ==
    /\ mainPc = "exit"
    /\ batches < MaxBatches
    /\ FALSE \in cfg.cursor_sync
    /\ \E item \in EnabledItems : \E l \in Listings(item) :
         /\ l # remote[item].listing
         /\ remote' = [remote EXCEPT ![item].listing = l]
    /\ UNCHANGED << cfg, parked, db, args, mainPc, idx, results, sync, loc, pc, trace,
                    batches, hist >>

\* between two invocations the provider appends a page of changes to a stream
StreamAppend ==
    /\ mainPc = "exit"
    /\ batches < MaxBatches
    /\ TRUE \in cfg.cursor_sync
    /\ \E item \in EnabledItems : \E p \in Pages(item) :
         /\ Len(remote[item].stream) < Min(MaxStream, Len(Cursors) - 1)
         /\ remote' = [remote EXCEPT ![item].stream = Append(@, p)]
    /\ UNCHANGED << cfg, parked, db, args, mainPc, idx, results, sync, loc, pc, trace,
                    batches, hist >>

(***************************************************************************)
(* Specifications.                                                         *)
(***************************************************************************)
\* a fresh store, main() not yet invoked
InitWith(enabled, cursor_sync) ==
    /\ cfg = [enabled |-> enabled, cursor_sync |-> cursor_sync]
    /\ remote = [i \in Items |-> InitialRemote(i)]
    /\ db = EmptyDb
    /\ args = NoArgs
    /\ mainPc = "exit"
    /\ idx = 1
    /\ results = << >>
    /\ sync = PlaidSynchronizer(None)
    /\ loc = InitLocals
    /\ pc = "none"
    /\ trace = << >>
    /\ batches = 0
    /\ hist = [db0 |-> EmptyDb, prev |-> [i \in Items |-> NoRun], saved |-> {}]
    /\ parked = NoContext

Step ==
    \/ ProcessAccount
    \/ RecordResult
    \/ Summary
    \/ GetItemInfoOk
    \/ GetItemInfoFail
    \/ GetAccountBalanceOk
    \/ GetAccountBalanceFail
    \/ SaveItemInfo
    \/ SaveBalance

CursorStep ==
    \/ GetLastSyncCursor
    \/ SyncTransactionsPageOk
    \/ SyncTransactionsPageFail
    \/ SaveTransactionCursor
    \/ SaveSyncCursor

WindowStep ==
    \/ GetTransactionsPageOk
    \/ GetTransactionsPageFail
    \/ GetTransactionIds
    \/ FetchTransactionsById
    \/ SaveTransactionWindow
    \/ Traceback

\* one configured account, synchronized in cursor mode
InitCursor == InitWith(<< "chase" >>, { TRUE })

NextCursor ==
    \/ \E balances \in BOOLEAN, verbose \in BOOLEAN : Main(TRUE, balances, verbose)
    \/ Step
    \/ CursorStep
    \/ StreamAppend

SpecCursor == InitCursor /\ [][NextCursor]_vars

\* one configured account, synchronized in window mode
InitWindow == InitWith(<< "chase" >>, { FALSE })

NextWindow ==
    \/ \E balances \in BOOLEAN, verbose \in BOOLEAN : Main(FALSE, balances, verbose)
    \/ Step
    \/ WindowStep
    \/ ListingChange

SpecWindow == InitWindow /\ [][NextWindow]_vars

\* the whole program: the two installations above, and one with two accounts
\* that is synchronized now in one mode, now in the other
Init ==
    \/ InitCursor
    \/ InitWindow
    \/ InitWith(<< "amex", "local" >>, BOOLEAN)


Next ==
    \/ \E cursor_sync \in BOOLEAN, balances \in BOOLEAN, verbose \in BOOLEAN :
         Main(cursor_sync, balances, verbose)
    \/ Step
    \/ CursorStep
    \/ WindowStep
    \/ ListingChange
    \/ StreamAppend

Spec == Init /\ [][Next]_vars

\* two configured accounts, synchronized now in one mode, now in the other
InitBatch == InitWith(<< "amex", "local" >>, BOOLEAN)

NextBatch ==
    \/ \E cursor_sync \in BOOLEAN, balances \in BOOLEAN, verbose \in BOOLEAN :
         Main(cursor_sync, balances, verbose)
    \/ Step
    \/ CursorStep
    \/ WindowStep

SpecBatch == InitBatch /\ [][NextBatch]_vars

\* the process is single-threaded and every call returns or raises: a step of
\* the program that can be taken is taken
ProgramStep == Step \/ CursorStep \/ WindowStep

\* the batch of SpecBatch without --verbose: status output, which no loop reads,
\* is off, so no run ends in the traceback of FetchTransactionsById
NextQuiet ==
    \/ \E cursor_sync \in BOOLEAN, balances \in BOOLEAN :
         Main(cursor_sync, balances, FALSE)
    \/ Step
    \/ CursorStep
    \/ GetTransactionsPageOk
    \/ GetTransactionsPageFail
    \/ GetTransactionIds
    \/ FetchTransactionsById
    \/ SaveTransactionWindow

FairSpec == InitBatch /\ [][NextQuiet]_vars /\ WF_vars(ProgramStep)

(***************************************************************************)
(* Two runs side by side.  main() runs the accounts one after the other;   *)
(* here the PlaidSynchronizer runs of two accounts are started together    *)
(* and take their steps (one provider call or one store operation each) in *)
(* any order.  Each run has its own PlaidSynchronizer and locals; the      *)
(* store and the provider are shared.                                      *)
(***************************************************************************)
\* item1 with a listing and a stream of its own, item2 as everywhere
ParallelRemote(item) ==
    IF item = "item1"
    THEN [listing |-> << Transaction("T1", FALSE), Transaction("T3", TRUE) >>,
          stream  |-> << Page(<< Transaction("T1", TRUE), Transaction("T2", TRUE) >>,
                              << >>, << >>),
                         Page(<< Transaction("T3", TRUE) >>,
                              << Transaction("T2", FALSE) >>, << "T1" >>) >>]
    ELSE InitialRemote(item)

TerminalPc == { "returned", "raised" }

\* process_account for both accounts at once
StartBoth ==
    /\ mainPc = "loop"
    /\ pc = "none"
    /\ idx = 1
    /\ Len(cfg.enabled) = 2
    /\ sync' = PlaidSynchronizer(cfg.enabled[1])
    /\ loc' = InitLocals
    /\ trace' = << >>
    /\ pc' = "get_item_info"
    /\ parked' = [sync |-> PlaidSynchronizer(cfg.enabled[2]), loc |-> InitLocals,
                  pc |-> "get_item_info", trace |-> << >>]
    /\ hist' = [hist EXCEPT !.db0 = db]
    /\ UNCHANGED << cfg, remote, db, args, mainPc, idx, results, batches >>

\* the scheduler lets the other run take the next steps
Switch ==
    /\ parked.pc \notin TerminalPc \cup { "none" }
    /\ sync' = parked.sync
    /\ loc' = parked.loc
    /\ pc' = parked.pc
    /\ trace' = parked.trace
    /\ parked' = [sync |-> sync, loc |-> loc, pc |-> pc, trace |-> trace]
    /\ UNCHANGED << cfg, remote, db, args, mainPc, idx, results, batches, hist >>

\* both runs are over, and the process ends
JoinBoth ==
    /\ pc \in TerminalPc
    /\ parked.pc \in TerminalPc
    /\ mainPc' = "exit"
    /\ args' = NoArgs
    /\ idx' = 1
    /\ results' = << >>
    /\ sync' = PlaidSynchronizer(None)
    /\ loc' = InitLocals
    /\ pc' = "none"
    /\ trace' = << >>
    /\ parked' = NoContext
    /\ hist' = [hist EXCEPT !.db0 = EmptyDb]
    /\ UNCHANGED << cfg, remote, db, batches >>

InitParallel ==
    /\ cfg = [enabled |-> << "chase", "amex" >>, cursor_sync |-> BOOLEAN]
    /\ remote = [i \in Items |-> ParallelRemote(i)]
    /\ db = EmptyDb
    /\ args = NoArgs
    /\ mainPc = "exit"
    /\ idx = 1
    /\ results = << >>
    /\ sync = PlaidSynchronizer(None)
    /\ loc = InitLocals
    /\ pc = "none"
    /\ trace = << >>
    /\ batches = 0
    /\ hist = [db0 |-> EmptyDb, prev |-> [i \in Items |-> NoRun], saved |-> {}]
    /\ parked = NoContext

NextParallel ==
    \/ \E cursor_sync \in BOOLEAN, balances \in BOOLEAN :
         Main(cursor_sync, balances, FALSE)
    \/ StartBoth
    \/ Switch
    \/ JoinBoth
    \/ GetItemInfoOk
    \/ GetItemInfoFail
    \/ GetAccountBalanceOk
    \/ GetAccountBalanceFail
    \/ SaveItemInfo
    \/ SaveBalance
    \/ CursorStep
    \/ GetTransactionsPageOk
    \/ GetTransactionsPageFail
    \/ GetTransactionIds
    \/ FetchTransactionsById
    \/ SaveTransactionWindow

SpecParallel == InitParallel /\ [][NextParallel]_vars

(***************************************************************************)
(* sync() called twice on one PlaidSynchronizer.  main() builds a new       *)
(* PlaidSynchronizer for every account; here the caller keeps the object   *)
(* and calls sync() again when the first call has returned.  __init__ is   *)
(* not run again: self.transactions, self.counts, self.item_info and       *)
(* self.plaid_error are what the first call left.                          *)
(***************************************************************************)
\* the second sync() on the same object, in window mode
SyncAgain ==
    /\ mainPc = "loop"
    /\ pc = "returned"
    /\ parked = NoContext
    /\ ~args.cursor_sync
    /\ parked' = [sync |-> sync, loc |-> loc, pc |-> pc, trace |-> trace]
    /\ loc' = InitLocals
    /\ trace' = << >>
    /\ pc' = "get_item_info"
    /\ hist' = [hist EXCEPT !.db0 = db]
    /\ UNCHANGED << cfg, remote, db, args, mainPc, idx, results, sync, batches >>

\* both calls without fetch_balances and without verbose
NextAgain ==
    \/ Main(FALSE, FALSE, FALSE)
    \/ ProcessAccount
    \/ SyncAgain
    \/ JoinBoth
    \/ GetItemInfoOk
    \/ GetItemInfoFail
    \/ SaveItemInfo
    \/ GetTransactionsPageOk
    \/ GetTransactionsPageFail
    \/ GetTransactionIds
    \/ FetchTransactionsById
    \/ SaveTransactionWindow
    \/ ListingChange

SpecAgain == InitWindow /\ [][NextAgain]_vars

(***************************************************************************)
(* Properties.                                                             *)
(***************************************************************************)
ProviderOps == { "get_item_info", "get_account_balance", "transactions_get",
                 "transactions_sync" }

WriteOps == { "save_item_info", "save_balance", "save_transaction",
              "save_sync_cursor" }

CallsOf(op) == { i \in 1..Len(trace) : trace[i].op = op }

Failed == sync.plaid_error # NoError

\* the running (or just finished) run is in cursor mode and its last call, a
\* page request of the drain, raised
DrainFailed ==
    /\ args.cursor_sync
    /\ Len(trace) > 0
    /\ trace[Len(trace)].op = "transactions_sync"
    /\ trace[Len(trace)].raised # None

\* C1: cursor atomicity.  When a page request of the drain fails, the run calls
\* save_sync_cursor nowhere and the cursors in the store are those the store held
\* when the run began.
C1_CursorAtomicity ==
    DrainFailed =>
        /\ CallsOf("save_sync_cursor") = {}
        /\ db.cursors = hist.db0.cursors

\* a drain whose second or later page request failed, from a stored cursor
C1_Witness ==
    /\ DrainFailed
    /\ pc = "returned"
    /\ Cardinality(CallsOf("transactions_sync")) >= 2
    /\ hist.db0.cursors[CurrentItem] = "c1"

WriteRank(op) ==
    CASE op = "save_item_info" -> 1
      [] op = "save_balance" -> 2
      [] op = "save_transaction" -> 3
      [] op = "save_sync_cursor" -> 4
      [] OTHER -> 0

\* the transactions passed to save_transaction by the running sync, in order
SavedInRun ==
    LET IsSave(c) == c.op = "save_transaction"
        calls == SelectSeq(trace, IsSave)
    IN  [i \in 1..Len(calls) |-> calls[i].txn]

\* C2: in cursor mode the store writes of a run come in the order
\* save_item_info, every save_balance, every save_transaction (the added ones,
\* then the modified ones), save_sync_cursor last; and whenever the stored
\* cursor of an item stands past a page of its stream, every added and modified
\* transaction of that page has been passed to save_transaction.
C2_WriteOrder ==
    /\ args.cursor_sync =>
         LET fetched == loc.all_added \o loc.all_modified
         IN  /\ \A i, j \in 1..Len(trace) :
                   (i < j /\ trace[i].op \in WriteOps /\ trace[j].op \in WriteOps)
                       => WriteRank(trace[i].op) <= WriteRank(trace[j].op)
             /\ Cardinality(CallsOf("save_item_info")) <= 1
             /\ Len(SavedInRun) <= Len(fetched)
             /\ \A n \in 1..Len(SavedInRun) : SavedInRun[n] = fetched[n]
             /\ CallsOf("save_sync_cursor") # {} =>
                   /\ CallsOf("save_sync_cursor") = { Len(trace) }
                   /\ CallsOf("save_item_info") # {}
                   /\ Cardinality(CallsOf("save_balance")) = Len(loc.balances.rows)
                   /\ SavedInRun = fetched
    /\ \A item \in Items :
         \A k \in 1..PosOf(db.cursors[item]) :
            \A t \in Range(remote[item].stream[k].added
                           \o remote[item].stream[k].modified) :
               t \in hist.saved

\* a run with balances has just stored a cursor that stands past two pages, one
\* of them with a modified transaction
C2_Witness ==
    /\ args.cursor_sync
    /\ pc = "returned"
    /\ CallsOf("save_sync_cursor") # {}
    /\ CallsOf("save_balance") # {}
    /\ PosOf(db.cursors[CurrentItem]) >= 2
    /\ loc.all_modified # << >>

\* the added (what = "added") or modified entries of the pages after position p
RECURSIVE Replay(_, _, _)
Replay(stream, p, what) ==
    IF p >= Len(stream) THEN << >>
    ELSE (IF what = "added" THEN stream[p + 1].added ELSE stream[p + 1].modified)
         \o Replay(stream, p + 1, what)

RECURSIVE SaveAll(_, _)
SaveAll(d, transactions) ==
    IF transactions = << >> THEN d
    ELSE SaveAll(save_transaction(d, Head(transactions)), Tail(transactions))

ItemOfTid(tid) ==
    CASE tid \in { "T1", "T2", "T3" } -> "item1"
      [] tid \in { "U1", "U2" } -> "item2"
      [] OTHER -> "item3"

OwnTransactions(d, item) ==
    { t \in d.transactions : ItemOfTid(t.transaction_id) = item }

\* the store a single successful cursor-mode run of the item leaves, begun on
\* store d0 with the stream as it is now
SingleRun(d0, item) ==
    LET stream == remote[item].stream
        p == PosOf(d0.cursors[item])
        d1 == SaveAll(d0, Replay(stream, p, "added") \o Replay(stream, p, "modified"))
    IN  save_sync_cursor(d1, item, CursorAt(Len(stream)))

\* a successful cursor-mode run has ended; the run of the item before it was a
\* cursor-mode run that ended as outcome says, and the stream is as it was then
RunAfter(outcome) ==
    /\ args.cursor_sync
    /\ pc = "returned"
    /\ ~Failed
    /\ hist.prev[CurrentItem].mode = "cursor"
    /\ hist.prev[CurrentItem].outcome = outcome
    /\ hist.prev[CurrentItem].stream = remote[CurrentItem].stream

\* C3: a cursor-mode run that failed in the drain, followed by a run that
\* succeeds with the stream unchanged, leaves the stored cursor and the stored
\* transactions of the item as one successful run from the store of before the
\* failed run leaves them.
C3_RetrySkipsNothing ==
    (RunAfter("failed") /\ hist.prev[CurrentItem].pages >= 1) =>
        LET d == SingleRun(hist.prev[CurrentItem].db0, CurrentItem)
        IN  /\ db.cursors[CurrentItem] = d.cursors[CurrentItem]
            /\ OwnTransactions(db, CurrentItem) = OwnTransactions(d, CurrentItem)

\* the failed run had got past its first page, and the retry stored transactions
C3_Witness ==
    /\ RunAfter("failed")
    /\ hist.prev[CurrentItem].pages >= 2
    /\ Cardinality(OwnTransactions(db, CurrentItem)) >= 2
    /\ PosOf(db.cursors[CurrentItem]) >= 2

\* the window-mode run is past the two differences and met no provider error
PastDiff ==
    /\ ~args.cursor_sync
    /\ ~Failed
    /\ pc \in { "fetch_transactions_by_id", "save_item_info", "save_balance",
                "save_transaction", "returned", "raised" }

FetchedIds == { loc.ret[i].transaction_id : i \in 1..Len(loc.ret) }

\* C4: in window mode, with the ids of the list get_transactions returned as
\* fetched and the ids the store returned as existing, the run computes
\* new = fetched - existing and archived = existing - fetched, the two are
\* disjoint, and counts.new and counts.archived are their sizes.
C4_WindowDiff ==
    PastDiff =>
        /\ loc.tids_new = FetchedIds \ loc.tids_existing
        /\ loc.tids_to_archive = loc.tids_existing \ FetchedIds
        /\ loc.tids_new \cap loc.tids_to_archive = {}
        /\ pc # "fetch_transactions_by_id" =>
              /\ sync.counts.new = Cardinality(FetchedIds \ loc.tids_existing)
              /\ sync.counts.archived = Cardinality(loc.tids_existing \ FetchedIds)

\* new, archived and the ids in both sets are all non-empty
C4_Witness ==
    /\ PastDiff
    /\ pc = "returned"
    /\ loc.tids_new # {}
    /\ loc.tids_to_archive # {}
    /\ FetchedIds \cap loc.tids_existing # {}

\* C5: a provider error raised at any provider call of one account's sync is
\* caught and stored as that account's plaid_error, every remaining enabled
\* account is still processed, and after the batch results holds one entry per
\* enabled account: main() does not end before the loop is through.
C5_ErrorIsolation ==
    /\ \A i \in 1..Len(trace) :
         trace[i].raised # None =>
            /\ i = Len(trace)
            /\ pc \in { "returned", "none" }
            /\ sync.plaid_error.cls # None
            /\ sync.plaid_error.message = trace[i].raised
    /\ mainPc = "loop" =>
         DOMAIN results = { cfg.enabled[i] : i \in 1..(idx - 1) }
    /\ (\E a \in DOMAIN results : results[a].plaid_error # NoError) =>
         mainPc # "crashed"

\* C6: every provider call of a run precedes every store write of the run, and
\* a run that ended with plaid_error set has made no store write: the store is
\* the store the run began with.
C6_NoPartialPersistence ==
    /\ \A i, j \in 1..Len(trace) :
         (i < j /\ trace[i].op \in WriteOps) => trace[j].op \notin ProviderOps
    /\ Failed =>
         /\ \A i \in 1..Len(trace) : trace[i].op \notin WriteOps
         /\ db = hist.db0

\* a window-mode run fails at its second page request, over a store that holds
\* transactions from an earlier run
C6_Witness ==
    /\ ~args.cursor_sync
    /\ Failed
    /\ pc = "returned"
    /\ Cardinality(CallsOf("transactions_get")) >= 2
    /\ db.transactions # {}

CountsBound(c) ==
    /\ c.new_pending <= c.new
    /\ c.archived_pending <= c.archived

\* C7: the counts of every run, running or recorded in results, in either mode,
\* have new_pending <= new and archived_pending <= archived.
C7_CountsBound ==
    /\ CountsBound(sync.counts)
    /\ \A a \in DOMAIN results : CountsBound(results[a].counts)

\* a cursor-mode run whose added list names an id twice, with pending entries
C7_Witness ==
    /\ args.cursor_sync
    /\ pc = "returned"
    /\ ~Failed
    /\ sync.counts.new > Cardinality(Range(Ids(loc.all_added)))
    /\ sync.counts.new_pending >= 1

\* get_transactions has returned to sync()
PastFetch ==
    /\ ~args.cursor_sync
    /\ ~Failed
    /\ pc \in { "get_transaction_ids", "fetch_transactions_by_id", "save_item_info",
                "save_balance", "save_transaction", "returned", "raised" }

Listed == remote[CurrentItem].listing

CeilDiv(n, d) == (n + d - 1) \div d

\* C8 as stated: for a provider listing N transactions, get_transactions issues
\* ceil(N / count) page requests and returns N items, for every N >= 0.
C8_PageRequests ==
    PastFetch =>
        /\ loc.requests = CeilDiv(Len(Listed), count)
        /\ Len(loc.ret) = Len(Listed)

\* C8 as amended: get_transactions issues ceil(N / count) page requests when
\* N >= 1 and one request when N = 0, and returns the N items listed.
C8_PageRequestsAtLeastOne ==
    PastFetch =>
        /\ loc.requests = (IF Len(Listed) = 0 THEN 1 ELSE CeilDiv(Len(Listed), count))
        /\ loc.ret = Listed

\* two full pages: the loop stops on the reported total, with no third request
C8_Witness ==
    /\ PastFetch
    /\ Len(Listed) = count + count
    /\ loc.requests = CeilDiv(Len(Listed), count)
    /\ loc.batch_len = count

\* C9: each page loop ends once the stop condition is met (a page shorter than
\* count or the collected count at the reported total; has_more = false), does
\* not go on past a page that met it, and ends only on such a page.
C9_LoopsTerminate ==
    /\ [](pc = "get_transactions" /\ loc.requests > 0 =>
             ~(loc.batch_len < count \/ Len(loc.ret) >= loc.total_transactions))
    /\ [](PastFetch =>
             (loc.batch_len < count \/ Len(loc.ret) >= loc.total_transactions))
    /\ [](pc = "sync_transactions" /\ CallsOf("transactions_sync") # {} =>
             PosOf(loc.current_cursor) < Len(remote[CurrentItem].stream))
    /\ [](args.cursor_sync /\ ~Failed /\ CallsOf("transactions_sync") # {}
             /\ pc # "sync_transactions" =>
             PosOf(loc.current_cursor) >= Len(remote[CurrentItem].stream))
    /\ (pc = "get_transactions" ~> pc # "get_transactions")
    /\ (pc = "sync_transactions" ~> pc # "sync_transactions")

\* a window loop that went on after a full first page and stopped on the total
C9_Witness ==
    /\ pc = "get_transaction_ids"
    /\ loc.requests = 2
    /\ loc.batch_len = count
    /\ Len(loc.ret) = loc.total_transactions

\* C10: a successful cursor-mode run right after a successful cursor-mode run of
\* the same item, the stream unchanged in between, gets empty added, modified
\* and removed lists, counts new = archived = total_fetched = 0, and leaves the
\* stored cursor as the first run left it.
C10_Idempotent ==
    RunAfter("ok") =>
        /\ loc.all_added = << >>
        /\ loc.all_modified = << >>
        /\ loc.all_removed = << >>
        /\ sync.counts.new = 0
        /\ sync.counts.archived = 0
        /\ sync.counts.total_fetched = 0
        /\ db.cursors[CurrentItem] = hist.prev[CurrentItem].cursor_after

\* the first run had drained two pages and stored their transactions
C10_Witness ==
    /\ RunAfter("ok")
    /\ PosOf(db.cursors[CurrentItem]) >= 2
    /\ OwnTransactions(db, CurrentItem) # {}

\* the added and modified entries a drain from position p receives, in the
\* order the pages bring them: each page's added, then its modified
RECURSIVE PageOrder(_, _)
PageOrder(stream, p) ==
    IF p >= Len(stream) THEN << >>
    ELSE stream[p + 1].added \o stream[p + 1].modified \o PageOrder(stream, p + 1)

\* sync_with_cursor is past the merge and met no provider error
PastMerge ==
    /\ args.cursor_sync
    /\ ~Failed
    /\ pc \in { "save_item_info", "save_balance", "save_transaction",
                "save_sync_cursor", "returned" }

\* the last call of save_transaction for the id, as the run made it
LastSaved(tid) ==
    LET calls == { i \in CallsOf("save_transaction") : trace[i].key = tid }
    IN  trace[CHOOSE i \in calls : \A j \in calls : j <= i].txn

\* C11: in cursor mode the working map holds, for every id, the value of the
\* occurrence that came last in page order over the added and modified lists of
\* the drain, and so does the last save_transaction of the id once the run is
\* through.
C11_LastWriteWins ==
    PastMerge =>
        LET last == add_transactions({}, PageOrder(remote[CurrentItem].stream,
                                                   PosOf(loc.last_cursor)))
        IN  /\ sync.transactions = last
            /\ pc = "returned" => \A t \in last : LastSaved(t.transaction_id) = t

\* the removed ids of the pages after position p
RECURSIVE ReplayRemoved(_, _)
ReplayRemoved(stream, p) ==
    IF p >= Len(stream) THEN << >>
    ELSE stream[p + 1].removed \o ReplayRemoved(stream, p + 1)

\* C12: after the merge of a cursor-mode run, counts.new is the number of added
\* entries over all pages, counts.archived the number of removed ids,
\* counts.total_fetched the number of added plus modified entries,
\* counts.accounts the number of distinct account ids among them,
\* counts.new_pending the number of added entries whose id is pending in the
\* merged map, and counts.archived_pending is 0.
C12_CursorCounts ==
    PastMerge =>
        LET stream == remote[CurrentItem].stream
            p == PosOf(loc.last_cursor)
            added == Replay(stream, p, "added")
            modified == Replay(stream, p, "modified")
            removed == ReplayRemoved(stream, p)
        IN  /\ sync.counts.new = Len(added)
            /\ sync.counts.archived = Len(removed)
            /\ sync.counts.total_fetched = Len(added) + Len(modified)
            /\ sync.counts.accounts =
                  Cardinality({ added[i].account_id : i \in 1..Len(added) }
                              \cup { modified[i].account_id : i \in 1..Len(modified) })
            /\ sync.counts.new_pending =
                  Cardinality({ i \in 1..Len(added) :
                                  \E t \in sync.transactions :
                                     /\ t.transaction_id = added[i].transaction_id
                                     /\ t.pending })
            /\ sync.counts.archived_pending = 0

\* a run over two pages and two accounts, with a removed id, in which an added
\* pending entry is settled by a modified entry of the same id
C12_Witness ==
    /\ PastMerge
    /\ pc = "returned"
    /\ sync.counts.accounts = 2
    /\ sync.counts.archived >= 1
    /\ sync.counts.new_pending >= 1
    /\ sync.counts.new_pending
          < Cardinality({ i \in 1..Len(loc.all_added) : loc.all_added[i].pending })

\* the calls a run makes on the store
StoreOps == WriteOps \cup { "get_last_sync_cursor", "get_transaction_ids",
                            "fetch_transactions_by_id" }

\* C13: no run calls archive_transactions or any delete: every call of a run is
\* a provider call or one of the store's reads and saves, and no step takes a
\* transaction id out of the store.
C13_NeverRemoves ==
    /\ [](\A i \in 1..Len(trace) : trace[i].op \in ProviderOps \cup StoreOps)
    /\ [][Keys(db.transactions) \subseteq Keys(db'.transactions)]_vars

\* a cursor-mode run has ended whose pages removed an id the store still holds
C13_Witness ==
    /\ args.cursor_sync
    /\ pc = "returned"
    /\ ~Failed
    /\ \E tid \in Range(loc.all_removed) : tid \in Keys(db.transactions)

\* C14: in window mode save_transaction is called for ids of
\* new = fetched - existing only and at most once for each, in a run that
\* returned without error exactly once for each; an id both stored and fetched
\* is in neither the new nor the archive set, and neither count includes it.
C14_SavesExactlyNew ==
    PastDiff =>
        LET new == FetchedIds \ loc.tids_existing
            saves == CallsOf("save_transaction")
        IN  /\ \A i \in saves : trace[i].key \in new
            /\ \A i, j \in saves : trace[i].key = trace[j].key => i = j
            /\ pc = "returned" => { trace[i].key : i \in saves } = new
            /\ \A tid \in FetchedIds \cap loc.tids_existing :
                  /\ tid \notin loc.tids_new
                  /\ tid \notin loc.tids_to_archive
            /\ pc # "fetch_transactions_by_id" =>
                  /\ sync.counts.new = Cardinality(new)
                  /\ sync.counts.archived
                        = Cardinality(loc.tids_existing \ FetchedIds)

\* a window run has saved a new id while another fetched id, stored as pending,
\* came back settled
C14_Witness ==
    /\ PastDiff
    /\ pc = "returned"
    /\ CallsOf("save_transaction") # {}
    /\ \E t \in Range(loc.ret) :
          /\ ~t.pending
          /\ t.transaction_id \in loc.tids_existing
          /\ [t EXCEPT !.pending = TRUE] \in hist.db0.transactions
          /\ \A i \in CallsOf("save_transaction") : trace[i].key # t.transaction_id

\* C15: after a window run that returned without error, the store holds, for
\* every fetched id it held before the run, the field values just fetched.
C15_RefetchMutates ==
    (PastDiff /\ pc = "returned") =>
        \A t \in add_transactions({}, loc.ret) :
            t.transaction_id \in Keys(hist.db0.transactions) => t \in db.transactions

\* the ids the store held, when the run began, for the window of the run and
\* the item (the credential) the run synchronizes
StoredInWindow ==
    { t.transaction_id :
        t \in { x \in OwnTransactions(hist.db0, CurrentItem) :
                  x.date >= args.start_date /\ x.date <= args.end_date } }

\* C16: in window mode every id the store holds for the window and the synced
\* item that is absent from the fetched set is in the archive set, and
\* counts.archived counts it, whatever was fetched.
C16_DisappearedArchived ==
    PastDiff =>
        /\ StoredInWindow \ FetchedIds \subseteq loc.tids_to_archive
        /\ pc # "fetch_transactions_by_id" =>
              sync.counts.archived >= Cardinality(StoredInWindow \ FetchedIds)

\* the store as a set of rows: the balance rows of each item in the order they
\* were saved, the rows of different items in no order
StoreView(d) ==
    [transactions |-> d.transactions,
     cursors      |-> d.cursors,
     item_info    |-> d.item_info,
     balances     |-> [i \in Items |->
                         LET Of(r) == r.item_id = i IN SelectSeq(d.balances, Of)]]

RECURSIVE SaveBalances(_, _, _)
SaveBalances(d, item_id, rows) ==
    IF rows = << >> THEN d
    ELSE SaveBalances(save_balance(d, item_id, Head(rows)), item_id, Tail(rows))

\* the store and the counts a cursor-mode run of the item leaves when it runs
\* alone on store d and meets no provider error
CursorAlone(d, item) ==
    LET stream == remote[item].stream
        p == PosOf(get_last_sync_cursor(d, item))
        added == Replay(stream, p, "added")
        modified == Replay(stream, p, "modified")
        removed == ReplayRemoved(stream, p)
        merged == add_transactions(add_transactions({}, added), modified)
        rows == IF args.balances THEN ProviderBalances(item) ELSE << >>
        d1 == SaveBalances(save_item_info(d, AccountInfo(item)), item, rows)
    IN  [db |-> save_sync_cursor(SaveAll(d1, added \o modified), item,
                                 CursorAt(Len(stream))),
         counts |-> SyncCounts(Len(added), count_pending(merged, Ids(added)),
                               Len(removed), 0, Len(added) + Len(modified),
                               Cardinality({ t.account_id :
                                               t \in Range(added \o modified) }))]

\* the same for a window-mode run
WindowAlone(d, item) ==
    LET fetched == add_transactions({}, remote[item].listing)
        accts == { t.account_id : t \in fetched }
        existing == get_transaction_ids(d, args.start_date, args.end_date, accts)
        new == Keys(fetched) \ existing
        arch == existing \ Keys(fetched)
        m == fetched \cup fetch_transactions_by_id(d, arch)
        rows == IF args.balances THEN ProviderBalances(item) ELSE << >>
        d1 == SaveBalances(save_item_info(d, AccountInfo(item)), item, rows)
    IN  [db |-> SaveAll(d1, SetToSeq({ t \in fetched : t.transaction_id \in new })),
         counts |-> SyncCounts(
                       Cardinality(new),
                       Cardinality({ t \in m : t.transaction_id \in new /\ t.pending }),
                       Cardinality(arch),
                       Cardinality({ t \in m : t.transaction_id \in arch /\ t.pending }),
                       Cardinality(Keys(fetched)),
                       Cardinality(accts))]

\* what the run of synchronizer s leaves when it runs alone on store d and ends
\* as s ended: with a provider error, or through
RunAlone(d, s) ==
    IF s.plaid_error # NoError
    THEN [db |-> d, counts |-> SyncCounts(0, 0, 0, 0, 0, 0)]
    ELSE IF args.cursor_sync THEN CursorAlone(d, ItemOf(s.account_name))
    ELSE WindowAlone(d, ItemOf(s.account_name))

BothOver == pc \in TerminalPc /\ parked.pc \in TerminalPc

\* C17: two runs for distinct items with disjoint account ids, their provider
\* calls and store operations interleaved in any order, leave the store and
\* each run's counts as the two runs leave them when one runs after the other,
\* in either order.
C17_ParallelAsSequential ==
    BothOver =>
        LET a1 == RunAlone(hist.db0, sync)
            b1 == RunAlone(a1.db, parked.sync)
            b2 == RunAlone(hist.db0, parked.sync)
            a2 == RunAlone(b2.db, sync)
        IN  /\ StoreView(db) = StoreView(b1.db)
            /\ StoreView(db) = StoreView(a2.db)
            /\ sync.counts = a1.counts
            /\ sync.counts = a2.counts
            /\ parked.sync.counts = b1.counts
            /\ parked.sync.counts = b2.counts

\* two window runs with balances have both come through, on a store that held
\* transactions before, and both saved: one its balances only, the other new
\* transactions as well
C17_Witness ==
    /\ BothOver
    /\ ~args.cursor_sync
    /\ args.balances
    /\ ~Failed
    /\ parked.sync.plaid_error = NoError
    /\ hist.db0.transactions # {}
    /\ \E tr \in { trace, parked.trace } :
          \E i \in 1..Len(tr) : tr[i].op = "save_transaction"
    /\ \E tr \in { trace, parked.trace } :
          /\ \E i \in 1..Len(tr) : tr[i].op = "save_balance"
          /\ \A i \in 1..Len(tr) : tr[i].op # "save_transaction"

\* the record of the id as get_transactions returned it last
LastFetched(tid) ==
    LET at == { i \in 1..Len(loc.ret) : loc.ret[i].transaction_id = tid }
    IN  loc.ret[CHOOSE i \in at : \A j \in at : j <= i]

\* sync() has set the counts of a window run
PastCounts == PastDiff /\ pc # "fetch_transactions_by_id"

\* C18: in window mode counts.archived_pending is the number of archive ids
\* whose stored record is pending, counts.new_pending the number of new ids
\* whose fetched record is pending, and the working map keeps every fetched
\* record: the records loaded for the archive ids replace none.
C18_PendingFromStorage ==
    PastCounts =>
        /\ sync.counts.archived_pending =
              Cardinality({ t \in fetch_transactions_by_id(hist.db0, loc.tids_to_archive) :
                              t.pending })
        /\ sync.counts.new_pending =
              Cardinality({ tid \in loc.tids_new : LastFetched(tid).pending })
        /\ \A tid \in FetchedIds : LastFetched(tid) \in sync.transactions
        /\ \A t \in sync.transactions :
              t.transaction_id \notin FetchedIds =>
                 /\ t.transaction_id \in loc.tids_to_archive
                 /\ t \in hist.db0.transactions

\* a run with a pending archive id, read from the store, and a pending new id
C18_Witness ==
    /\ PastCounts
    /\ pc = "returned"
    /\ sync.counts.archived_pending >= 1
    /\ sync.counts.new_pending >= 1
    /\ \E t \in sync.transactions : t.transaction_id \notin FetchedIds

\* the place of a call in the order of a run: item info, balances, the
\* transaction fetch of the mode, the reads for the diff, the writes
StageOf(op) ==
    CASE op = "get_item_info" -> 1
      [] op = "get_account_balance" -> 2
      [] op \in { "get_last_sync_cursor", "transactions_sync", "transactions_get" } -> 3
      [] op \in { "get_transaction_ids", "fetch_transactions_by_id" } -> 4
      [] OTHER -> 5

\* C19: a run calls get_item_info first and once, then get_account_balance
\* exactly if balances are asked for, then the transaction fetch of its mode,
\* then the store; and a provider call that raised is the last call of the
\* run, provider or store.
C19_RunOrder ==
    /\ \A i, j \in 1..Len(trace) :
          i < j => StageOf(trace[i].op) <= StageOf(trace[j].op)
    /\ Len(trace) >= 1 => trace[1].op = "get_item_info"
    /\ Cardinality(CallsOf("get_item_info")) <= 1
    /\ Cardinality(CallsOf("get_account_balance")) <= 1
    /\ CallsOf("get_account_balance") # {} => args.balances
    /\ (Len(trace) >= 2 /\ args.balances) => trace[2].op = "get_account_balance"
    /\ CallsOf("transactions_sync") # {} => args.cursor_sync
    /\ CallsOf("transactions_get") # {} => ~args.cursor_sync
    /\ \A i \in 1..Len(trace) :
          /\ trace[i].raised # None => (i = Len(trace) /\ trace[i].op \in ProviderOps)
          /\ StageOf(trace[i].op) = 5 =>
                \/ CallsOf("transactions_sync") # {}
                \/ CallsOf("transactions_get") # {}
    /\ Failed =>
          /\ pc \in { "returned", "none" }
          /\ trace[Len(trace)].raised # None

\* a window run with balances whose second page request raised
C19_Witness ==
    /\ ~args.cursor_sync
    /\ args.balances
    /\ pc = "returned"
    /\ Failed
    /\ Len(trace) = 4
    /\ trace[3].op = "transactions_get"
    /\ trace[4].op = "transactions_get"

\* the cursors of the page requests of the run, in order
RequestCursors ==
    LET IsSync(c) == c.op = "transactions_sync"
        calls == SelectSeq(trace, IsSync)
    IN  [i \in 1..Len(calls) |-> calls[i].key]

\* C20: the first page request of a drain carries the cursor the store holds
\* for the item (none when none is stored), every later request the next_cursor
\* of the page before it, and after a run that came through the stored cursor
\* is the next_cursor of the last page, the page with has_more = false.
C20_CursorChaining ==
    args.cursor_sync =>
        LET cs == RequestCursors
            item == CurrentItem
        IN  /\ Len(cs) >= 1 => cs[1] = hist.db0.cursors[item]
            /\ \A k \in 2..Len(cs) :
                  /\ cs[k] = transactions_sync(item, cs[k - 1]).next_cursor
                  /\ transactions_sync(item, cs[k - 1]).has_more
            /\ (pc = "returned" /\ ~Failed) =>
                  /\ Len(cs) >= 1
                  /\ ~transactions_sync(item, cs[Len(cs)]).has_more
                  /\ db.cursors[item] = transactions_sync(item, cs[Len(cs)]).next_cursor

\* a drain of two pages or more, begun from a stored cursor, has come through
C20_Witness ==
    /\ args.cursor_sync
    /\ pc = "returned"
    /\ ~Failed
    /\ Len(RequestCursors) >= 2
    /\ hist.db0.cursors[CurrentItem] = "c1"
    /\ db.cursors[CurrentItem] = "c3"

CursorModeOps == { "get_last_sync_cursor", "transactions_sync", "save_sync_cursor" }

WindowModeOps == { "transactions_get", "get_transaction_ids",
                   "fetch_transactions_by_id" }

\* C21: the mode is chosen by the flag alone.  A run without use_cursor_sync
\* calls none of get_last_sync_cursor, sync_transactions, save_sync_cursor and
\* leaves the stored cursors as they were; a run with use_cursor_sync calls none
\* of get_transactions, get_transaction_ids, fetch_transactions_by_id.
C21_ModeByFlag ==
    pc # "none" =>
        /\ ~args.cursor_sync =>
              /\ \A i \in 1..Len(trace) : trace[i].op \notin CursorModeOps
              /\ db.cursors = hist.db0.cursors
        /\ args.cursor_sync =>
              \A i \in 1..Len(trace) : trace[i].op \notin WindowModeOps

\* a window-mode run over a store that holds a cursor and transactions of the
\* item, left there by a cursor-mode run, has come through
C21_Witness ==
    /\ ~args.cursor_sync
    /\ pc = "returned"
    /\ ~Failed
    /\ hist.db0.cursors[CurrentItem] # None
    /\ OwnTransactions(hist.db0, CurrentItem) # {}
    /\ CallsOf("transactions_get") # {}
    /\ CallsOf("save_item_info") # {}

\* C22: a run with fetch_balances that came through has called save_balance
\* once for each balance the provider returned, in the provider's order, each
\* with the item id get_item_info returned in this run; a run without
\* fetch_balances calls neither get_account_balance nor save_balance.
C22_BalanceSnapshot ==
    pc # "none" =>
        /\ (args.balances /\ pc = "returned" /\ ~Failed) =>
              LET rows == ProviderBalances(CurrentItem)
              IN  /\ Cardinality(CallsOf("get_account_balance")) = 1
                  /\ Cardinality(CallsOf("save_balance")) = Len(rows)
                  /\ \A i \in CallsOf("save_balance") :
                        trace[i].key = AccountInfo(CurrentItem).item_id
                  /\ sync.item_info = AccountInfo(CurrentItem)
                  /\ db.balances =
                        hist.db0.balances \o
                        [i \in 1..Len(rows) |->
                            [item_id |-> sync.item_info.item_id, balance |-> rows[i]]]
        /\ ~args.balances =>
              /\ CallsOf("get_account_balance") = {}
              /\ CallsOf("save_balance") = {}
              /\ db.balances = hist.db0.balances

\* a run with fetch_balances has saved the two balances of an item, after
\* rows saved by an earlier run
C22_Witness ==
    /\ args.balances
    /\ pc = "returned"
    /\ ~Failed
    /\ Cardinality(CallsOf("save_balance")) = 2
    /\ hist.db0.balances # << >>

PlaidErrorClasses == { "PlaidNoApplicableAccounts", "PlaidAccountUpdateNeeded",
                       "PlaidUnknownError" }

\* the reason of the ApiException the last call of the run raised, None if it
\* raised none
LastRaised == IF trace = << >> THEN None ELSE trace[Len(trace)].raised

\* C23: every ApiException raised in a provider call reaches the synchronizer
\* as exactly one of the three PlaidError classes: PlaidNoApplicableAccounts
\* for reason NO_ACCOUNTS, PlaidAccountUpdateNeeded for ITEM_LOGIN_REQUIRED,
\* PlaidUnknownError for any other reason.  The except clause of the run
\* catches it: the exception is never left uncaught, and a run has an error
\* only if a provider call raised.
C23_ErrorClassification ==
    /\ Failed <=> LastRaised # None
    /\ LastRaised # None =>
          /\ pc \in { "returned", "none" }
          /\ mainPc # "crashed"
          /\ trace[Len(trace)].op \in ProviderOps
          /\ sync.plaid_error.cls \in PlaidErrorClasses
          /\ sync.plaid_error.message = LastRaised
          /\ sync.plaid_error.cls = "PlaidNoApplicableAccounts"
                <=> LastRaised = "NO_ACCOUNTS"
          /\ sync.plaid_error.cls = "PlaidAccountUpdateNeeded"
                <=> LastRaised = "ITEM_LOGIN_REQUIRED"
          /\ sync.plaid_error.cls = "PlaidUnknownError"
                <=> LastRaised \notin { "NO_ACCOUNTS", "ITEM_LOGIN_REQUIRED" }
    /\ \A a \in DOMAIN results :
          results[a].plaid_error.cls \in PlaidErrorClasses \cup { None }

\* a page request of a drain raised ITEM_LOGIN_REQUIRED after a page that
\* came through
C23_Witness ==
    /\ LastRaised = "ITEM_LOGIN_REQUIRED"
    /\ sync.plaid_error.cls = "PlaidAccountUpdateNeeded"
    /\ Cardinality(CallsOf("transactions_sync")) = 2

\* C24: verbose changes the output only.  A run that is over, with or without
\* verbose, has returned, and it leaves the store, the counts and plaid_error
\* as the run without verbose leaves them on the same store with the same
\* provider answers.
C24_VerboseOnlyOutput ==
    pc \in TerminalPc =>
        LET quiet == RunAlone(hist.db0, sync)
        IN  /\ pc = "returned"
            /\ db = quiet.db
            /\ sync.counts = quiet.counts

\* the second call of sync() on the synchronizer has returned, and neither call
\* met a provider error
SecondCallOver ==
    /\ pc = "returned"
    /\ parked.pc = "returned"
    /\ sync.plaid_error = NoError

\* C25: a second sync() in window mode on the same PlaidSynchronizer ends with
\* the counts new, archived, total_fetched and accounts that a sync() on a new
\* PlaidSynchronizer ends with, on the same store and provider data.
C25_RerunAsFresh ==
    SecondCallOver =>
        LET fresh == WindowAlone(hist.db0, CurrentItem).counts
        IN  /\ sync.counts.new = fresh.new
            /\ sync.counts.archived = fresh.archived
            /\ sync.counts.total_fetched = fresh.total_fetched
            /\ sync.counts.accounts = fresh.accounts

\* the positions of a run at which a provider call or a read for the diff is
\* still ahead
BeforeCounts == { "get_item_info", "get_account_balance", "get_last_sync_cursor",
                  "sync_transactions", "get_transactions", "get_transaction_ids",
                  "fetch_transactions_by_id" }

\* C26: a run that ends with plaid_error set has the counts of the
\* constructor, SyncCounts(0, 0, 0, 0, 0, 0), in both modes and whichever
\* provider call raised; while a provider call is still ahead the counts are
\* those of the constructor as well.
C26_CountsOnFailure ==
    /\ Failed => sync.counts = SyncCounts(0, 0, 0, 0, 0, 0)
    /\ pc \in BeforeCounts => sync.counts = SyncCounts(0, 0, 0, 0, 0, 0)
    /\ \A a \in DOMAIN results :
          results[a].plaid_error # NoError =>
              results[a].counts = SyncCounts(0, 0, 0, 0, 0, 0)

\* the second page request of a drain raised, after a page with added
\* transactions, and the run is in the results
C26_Witness ==
    /\ mainPc = "loop"
    /\ pc = "none"
    /\ \E a \in DOMAIN results :
          /\ results[a].plaid_error # NoError
          /\ a = sync.account_name
    /\ Cardinality(CallsOf("transactions_sync")) = 2
    /\ loc.all_added # << >>

\* C27: over runs that follow one another, each coming through or failing at
\* any page, with a provider whose next_cursor never precedes the cursor of
\* the request, the position of the stored cursor of every item in its change
\* stream never decreases from one state to the next.
C27_CursorMonotone ==
    [][\A i \in Items : PosOf(db'.cursors[i]) >= PosOf(db.cursors[i])]_vars

\* a cursor-mode run that began from a stored cursor has saved a later one
C27_Witness ==
    /\ args.cursor_sync
    /\ pc = "returned"
    /\ ~Failed
    /\ PosOf(hist.db0.cursors[CurrentItem]) >= 1
    /\ PosOf(db.cursors[CurrentItem]) > PosOf(hist.db0.cursors[CurrentItem])

====
